---------------------------- MODULE Spec2Model ----------------------------
(***************************************************************************)
(* A model of gocd's package finder: the persistent path -> mtime cache    *)
(* (cache.loadCache/save/add/get/del/contains), the directory walker       *)
(* (PkgFinder.walker/walkPath over a kr/fs Walker) and PkgFinder.Find.     *)
(*                                                                         *)
(* Strings are sequences of character codes, so that Split, Join, string   *)
(* comparison, prefix and substring tests are computed, not assumed.       *)
(* A path on disk is the sequence of its component names below the         *)
(* workspace root (the root itself is the empty sequence).                 *)
(***************************************************************************)
EXTENDS Integers, Sequences, FiniteSets, TLC

(***************************************************************************)
(* Strings                                                                 *)
(***************************************************************************)
\* string(filepath.Separator), '/'
Sep == 47

RECURSIVE Join(_)
\* filepath.Join of already clean, non-empty components
Join(components) ==
    IF Len(components) = 0 THEN << >>
    ELSE IF Len(components) = 1 THEN components[1]
    ELSE components[1] \o <<Sep>> \o Join(Tail(components))

RECURSIVE SplitFrom(_, _)
SplitFrom(s, cur) ==
    IF Len(s) = 0 THEN <<cur>>
    ELSE IF Head(s) = Sep THEN <<cur>> \o SplitFrom(Tail(s), << >>)
    ELSE SplitFrom(Tail(s), Append(cur, Head(s)))

\* strings.Split(s, "/"): always at least one (possibly empty) component
Split(s) == SplitFrom(s, << >>)

RECURSIVE StrLess(_, _)
\* Go's < on strings: bytewise lexicographic
StrLess(s, t) ==
    IF Len(t) = 0 THEN FALSE
    ELSE IF Len(s) = 0 THEN TRUE
    ELSE IF Head(s) < Head(t) THEN TRUE
    ELSE IF Head(s) > Head(t) THEN FALSE
    ELSE StrLess(Tail(s), Tail(t))

\* strings.HasPrefix
HasPrefix(s, prefix) ==
    /\ Len(prefix) <= Len(s)
    /\ SubSeq(s, 1, Len(prefix)) = prefix

\* strings.Contains
StrContains(s, sub) ==
    \E i \in 0..(Len(s) - Len(sub)) : SubSeq(s, i + 1, i + Len(sub)) = sub

\* path.IsAbs
IsAbs(s) == Len(s) > 0 /\ s[1] = Sep

\* unicode.ToLower on ASCII letters
ToLower(ch) == IF ch \in 65..90 THEN ch + 32 ELSE ch

(***************************************************************************)
(* fuzzy.RankFindFold (github.com/renstrom/fuzzysearch)                    *)
(***************************************************************************)
RECURSIVE MatchFold(_, _)
\* source is a case-folded subsequence of target
MatchFold(source, target) ==
    IF Len(source) = 0 THEN TRUE
    ELSE IF Len(target) < Len(source) THEN FALSE
    ELSE IF ToLower(Head(source)) = ToLower(Head(target))
         THEN MatchFold(Tail(source), Tail(target))
         ELSE MatchFold(source, Tail(target))

Min2(a, b) == IF a < b THEN a ELSE b

RECURSIVE LevRow(_, _, _, _, _)
\* one row of the Levenshtein table: prev is the row of s[1..i-1], the
\* result is the row of s[1..i]; acc holds the cells 0..j-1 already built
LevRow(ch, t, prev, acc, j) ==
    IF j > Len(t) THEN acc
    ELSE LET cost == IF ch = t[j] THEN 0 ELSE 1
             cell == Min2(Min2(prev[j + 1] + 1, acc[j] + 1), prev[j] + cost)
         IN LevRow(ch, t, prev, Append(acc, cell), j + 1)

RECURSIVE LevRows(_, _, _, _)
LevRows(s, t, prev, i) ==
    IF i > Len(s) THEN prev
    ELSE LevRows(s, t, LevRow(s[i], t, prev, <<i>>, 1), i + 1)

\* fuzzy.LevenshteinDistance
LevenshteinDistance(s, t) ==
    LevRows(s, t, [j \in 1..(Len(t) + 1) |-> j - 1], 1)[Len(t) + 1]

RECURSIVE RankFindFold(_, _)
\* one Rank per target the source fold-matches, in the targets' order
RankFindFold(source, targets) ==
    IF Len(targets) = 0 THEN << >>
    ELSE LET t == Head(targets)
             rest == RankFindFold(source, Tail(targets))
         IN IF MatchFold(source, t)
            THEN <<[Target |-> t, Distance |-> LevenshteinDistance(source, t)]>> \o rest
            ELSE rest


(***************************************************************************)
(* The directory tree under the workspace root                             *)
(***************************************************************************)
\* names of directory entries: "a" "b" "c" "x" "cd" ".g" "f"
nA == <<97>>
nB == <<98>>
nC == <<99>>
nX == <<120>>
nCD == <<99, 100>>
nDotG == <<46, 103>>
nF == <<102>>

\* the directories that may exist below the root
DirUniverse ==
    { <<nA>>, <<nA, nB>>, <<nA, nB, nC>>, <<nX>>, <<nX, nC>>, <<nX, nCD>>, <<nDotG>> }

\* the regular files that may exist below the root
FileUniverse == { <<nA, nF>> }

Universe == DirUniverse \cup FileUniverse

Root == << >>

Parent(p) == SubSeq(p, 1, Len(p) - 1)

Base(p) == p[Len(p)]

\* the tree at the start: a/b/c and x/c (and x/cd or not)
InitialTrees ==
    { { <<nA>>, <<nA, nB>>, <<nA, nB, nC>>, <<nX>>, <<nX, nC>> },
      { <<nA>>, <<nA, nB>>, <<nA, nB, nC>>, <<nA, nF>>, <<nX>>, <<nX, nCD>>, <<nDotG>> } }

\* os.FileInfo.IsDir of an existing entry: every entry but the regular
\* files (the root is a directory)
IsDir(p) == p \notin FileUniverse

\* the path string of the entry p : filepath.Join(gopath, p...)
AbsPath(root, p) == IF p = Root THEN root ELSE root \o <<Sep>> \o Join(p)

\* filepath.Rel(gopath, path) for an entry p at or below the root
Rel(p) == IF p = Root THEN <<46>> ELSE Join(p)

\* os.Stat(filepath.Join(gopath, rel)) succeeds: rel names an existing entry
StatOk(d, rel) == rel = << >> \/ Split(rel) \in DOMAIN d

RECURSIVE SortByName(_)
\* ioutil.ReadDir returns the entries sorted by file name
SortByName(ps) ==
    IF ps = {} THEN << >>
    ELSE LET first == CHOOSE p \in ps : \A q \in ps \ {p} : StrLess(Base(p), Base(q))
         IN <<first>> \o SortByName(ps \ {first})

\* the entries of directory p, in ReadDir's order
ReadDir(d, p) == SortByName({ q \in DOMAIN d : Len(q) = Len(p) + 1 /\ Parent(q) = p })

Reverse(s) == [i \in 1..Len(s) |-> s[Len(s) + 1 - i]]

(***************************************************************************)
(* cache: a record [storage, changed, fullScan]; storage is a function     *)
(* from relative path strings to mtimes                                    *)
(***************************************************************************)
EmptyMap == [k \in {} |-> 0]

\* cache.get
get(c, path) ==
    [found |-> path \in DOMAIN c.storage,
     mtime |-> IF path \in DOMAIN c.storage THEN c.storage[path] ELSE 0]

\* cache.add: unconditional upsert, marks the cache changed
add(c, path, mtime) ==
    [c EXCEPT !.storage = [k \in (DOMAIN c.storage) \cup {path} |->
                              IF k = path THEN mtime ELSE c.storage[k]],
              !.changed = TRUE]

\* cache.del that marks the cache changed and forgets the delete
delForgetful(c, path) ==
    IF path \notin DOMAIN c.storage THEN c ELSE [c EXCEPT !.changed = TRUE]

\* cache.del: nothing for an absent key, otherwise delete and mark changed
del(c, path) ==
    IF ~get(c, path).found THEN c
    ELSE [c EXCEPT !.storage = [k \in (DOMAIN c.storage) \ {path} |-> c.storage[k]],
                   !.changed = TRUE]

RECURSIVE containsEntryByName(_, _, _, _, _, _)
\* the inner loop of cache.contains comparing the query with the single
\* component components[x] instead of the join of components[x:]
containsEntryByName(entry, components, x, path, max, ret) ==
    IF x < 0 THEN [ret |-> ret, done |-> FALSE]
    ELSE IF path = components[x + 1]
         THEN IF Len(ret) + 1 > max
              THEN [ret |-> Append(ret, entry), done |-> TRUE]
              ELSE containsEntryByName(entry, components, x - 1, path, max,
                                       Append(ret, entry))
         ELSE containsEntryByName(entry, components, x - 1, path, max, ret)

RECURSIVE containsEntry(_, _, _, _, _, _)
\* the inner loop of cache.contains over one entry, x from len-1 down to 0
containsEntry(entry, components, x, path, max, ret) ==
    IF x < 0 THEN [ret |-> ret, done |-> FALSE]
    ELSE LET p == Join(SubSeq(components, x + 1, Len(components)))
         IN IF path = p
            THEN LET ret1 == Append(ret, entry)
                 IN IF Len(ret1) > max
                    THEN [ret |-> ret1, done |-> TRUE]
                    ELSE containsEntry(entry, components, x - 1, path, max, ret1)
            ELSE containsEntry(entry, components, x - 1, path, max, ret)

RECURSIVE containsScan(_, _, _, _)
\* the range loop of cache.contains, visiting the keys in the given order
containsScan(order, path, max, ret) ==
    IF Len(order) = 0 THEN ret
    ELSE LET entry == Head(order)
             components == Split(entry)
             r == containsEntry(entry, components, Len(components) - 1, path, max, ret)
         IN IF r.done THEN r.ret
            ELSE containsScan(Tail(order), path, max, r.ret)

\* cache.contains; order is the order in which the range loop meets the keys
contains(c, path, max, order) ==
    IF get(c, path).found
    THEN [paths |-> <<path>>, full |-> TRUE]
    ELSE [paths |-> containsScan(order, path, max, << >>), full |-> FALSE]

\* path is a trailing slice of the components of entry
TrailingSlice(entry, path) ==
    LET components == Split(entry)
    IN \E x \in 1..Len(components) : Join(SubSeq(components, x, Len(components))) = path

RECURSIVE SetToSeq(_)
SetToSeq(S) ==
    IF S = {} THEN << >>
    ELSE LET e == CHOOSE e \in S : TRUE IN <<e>> \o SetToSeq(S \ {e})

Perms(S) ==
    { f \in [1..Cardinality(S) -> S] : \A i, j \in 1..Cardinality(S) : f[i] = f[j] => i = j }

\* Go leaves the iteration order of a map unspecified: every relative order
\* of the keys the query can match is taken; the keys it cannot match
\* leave the scan's result as it is whenever they come, so they come last.
RangeOrders(storage, path) ==
    LET hit == { k \in DOMAIN storage : TrailingSlice(k, path) }
    IN { f \o SetToSeq((DOMAIN storage) \ hit) : f \in Perms(hit) }

(***************************************************************************)
(* fs.Walker (github.com/kr/fs): a stack of pending items, the current     *)
(* item and the descend flag; read is the set of directories whose         *)
(* entries were enumerated so far (kept for the properties)                *)
(***************************************************************************)
\* fs.Walk(root)
Walk ==
    [stack |-> <<[path |-> Root, err |-> FALSE]>>,
     cur |-> [path |-> Root, err |-> FALSE],
     descend |-> FALSE, read |-> {}]

\* Walker.SkipDir
SkipDir(w) == [w EXCEPT !.descend = FALSE]

\* Step that ends the walk at a directory it cannot enumerate
StepAbortOnError(w, d, bad) ==
    LET enter == w.descend /\ ~w.cur.err /\ IsDir(w.cur.path)
        pushed ==
            IF ~enter THEN w.stack
            ELSE IF w.cur.path \in bad
                 THEN << >>
                 ELSE w.stack \o
                      [i \in 1..Len(ReadDir(d, w.cur.path)) |->
                          [path |-> Reverse(ReadDir(d, w.cur.path))[i], err |-> FALSE]]
        read1 == IF enter /\ w.cur.path \notin bad THEN w.read \cup {w.cur.path} ELSE w.read
    IN IF Len(pushed) = 0
       THEN [ok |-> FALSE, w |-> [w EXCEPT !.stack = pushed, !.read = read1]]
       ELSE [ok |-> TRUE,
             w |-> [stack |-> SubSeq(pushed, 1, Len(pushed) - 1),
                    cur |-> pushed[Len(pushed)],
                    descend |-> TRUE, read |-> read1]]

\* Walker.Step: enumerate the current directory if it is to be descended
\* into (an unreadable one is pushed back with its error), then pop
Step(w, d, bad) ==
    LET enter == w.descend /\ ~w.cur.err /\ IsDir(w.cur.path)
        pushed ==
            IF ~enter THEN w.stack
            ELSE IF w.cur.path \in bad
                 THEN Append(w.stack, [path |-> w.cur.path, err |-> TRUE])
                 ELSE w.stack \o
                      [i \in 1..Len(ReadDir(d, w.cur.path)) |->
                          [path |-> Reverse(ReadDir(d, w.cur.path))[i], err |-> FALSE]]
        read1 == IF enter /\ w.cur.path \notin bad THEN w.read \cup {w.cur.path} ELSE w.read
    IN IF Len(pushed) = 0
       THEN [ok |-> FALSE, w |-> [w EXCEPT !.stack = pushed, !.read = read1]]
       ELSE [ok |-> TRUE,
             w |-> [stack |-> SubSeq(pushed, 1, Len(pushed) - 1),
                    cur |-> pushed[Len(pushed)],
                    descend |-> TRUE, read |-> read1]]

(***************************************************************************)
(* PkgFinder: f is the record [gopath, depthLimit]; depth is the           *)
(* package-level variable of the -d flag                                   *)
(***************************************************************************)
RECURSIVE matchComponentFrom(_, _, _)
matchComponentFrom(find, components, x) ==
    IF x >= Len(components) THEN FALSE
    ELSE IF find = Join(SubSeq(components, x + 1, Len(components))) THEN TRUE
    ELSE matchComponentFrom(find, components, x + 1)

\* PkgFinder.matchComponent: find equals the join of components[x:] for some x
matchComponent(find, components) == matchComponentFrom(find, components, 0)

RECURSIVE Search(_, _, _, _)
\* sort.Search over a[i..j): the binary search of sort.SearchStrings
Search(a, x, i, j) ==
    IF i >= j THEN i
    ELSE LET h == (i + j) \div 2
         IN IF StrLess(a[h + 1], x)
            THEN Search(a, x, h + 1, j)
            ELSE Search(a, x, i, h)

\* sort.SearchStrings(a, x)
SearchStrings(a, x) == Search(a, x, 0, Len(a))

\* mtimeSkip without the test of the depth
mtimeSkipAnywhere(depthLimit, depth, inCache, mtime, prevMtime) ==
    inCache /\ mtime <= prevMtime

\* the condition under which walkPath skips a directory by its mtime:
\* w.depthLimit-1 == depth, with depth the package-level flag variable
mtimeSkip(depthLimit, depth, inCache, mtime, prevMtime) ==
    /\ depthLimit - 1 = depth
    /\ inCache
    /\ mtime <= prevMtime

\* walkPath marking the cache changed for every directory it visits in
\* incremental mode, not only for the ones it adds
walkPathAlwaysChanged(st, f, depth, find, pkg, components, mtime) ==
    LET seen == [st EXCEPT !.visited = Append(@, pkg)]
    IN IF st.c.fullScan
       THEN [seen EXCEPT !.c = add(st.c, pkg, mtime)]
       ELSE LET prev == get(st.c, pkg)
                c1 == IF ~prev.found
                      THEN add(st.c, pkg, mtime)
                      ELSE [st.c EXCEPT !.changed = TRUE]
            IN IF matchComponent(find, components)
               THEN LET in == SearchStrings(st.matches, pkg)
                    IN [seen EXCEPT !.c = c1,
                                    !.matches = IF Len(st.matches) <= in
                                                THEN Append(@, pkg) ELSE @]
               ELSE IF mtimeSkip(f.depthLimit, depth, prev.found, mtime, prev.mtime)
                    THEN [seen EXCEPT !.c = c1, !.w = SkipDir(st.w),
                                      !.skipped = @ \cup {pkg}]
                    ELSE [seen EXCEPT !.c = c1]

\* PkgFinder.walkPath on the walker's current directory; st is the record
\* [w, c, matches, visited, skipped] threaded through the walk
walkPath(st, f, depth, find, pkg, components, mtime) ==
    LET seen == [st EXCEPT !.visited = Append(@, pkg)]
    IN IF st.c.fullScan
       THEN [seen EXCEPT !.c = add(st.c, pkg, mtime)]
       ELSE LET prev == get(st.c, pkg)
                c1 == IF ~prev.found
                      THEN add([st.c EXCEPT !.changed = TRUE], pkg, mtime)
                      ELSE st.c
            IN IF matchComponent(find, components)
               THEN LET in == SearchStrings(st.matches, pkg)
                    IN [seen EXCEPT !.c = c1,
                                    !.matches = IF Len(st.matches) <= in
                                                THEN Append(@, pkg) ELSE @]
               ELSE IF mtimeSkip(f.depthLimit, depth, prev.found, mtime, prev.mtime)
                    THEN [seen EXCEPT !.c = c1, !.w = SkipDir(st.w),
                                      !.skipped = @ \cup {pkg}]
                    ELSE [seen EXCEPT !.c = c1]

\* "vendor"
Vendor == <<118, 101, 110, 100, 111, 114>>

\* the walker's exclusion test on a directory
excluded(name, path) ==
    \/ HasPrefix(name, <<46>>)
    \/ HasPrefix(name, <<95>>)
    \/ StrContains(path, Vendor)

\* the walker's depth test
depthLimitHit(depthLimit, n) == depthLimit > -1 /\ n >= depthLimit

\* one iteration of the walker's loop, on the item Step has just popped
walkerBody(st, f, depth, find, d) ==
    LET p == st.w.cur.path
        path == AbsPath(f.gopath, p)
        isDir == IsDir(p)
        pkg == IF isDir THEN Rel(p) ELSE Rel(Parent(p))
        components == Split(pkg)
        n == Len(components)
        st1 == IF depthLimitHit(f.depthLimit, n)
               THEN [st EXCEPT !.w = SkipDir(st.w)] ELSE st
    IN IF st.w.cur.err THEN [st EXCEPT !.errors = @ + 1]
       ELSE IF path = f.gopath THEN st
       ELSE IF ~isDir THEN st1
       ELSE IF excluded(Base(p), path) THEN [st1 EXCEPT !.w = SkipDir(st1.w)]
       ELSE walkPath(st1, f, depth, find, pkg, components, d[p])

RECURSIVE walkerLoop(_, _, _, _, _, _, _)
RECURSIVE walkerNext(_, _, _, _, _, _)
walkerNext(st, f, depth, find, d, bad) ==
    walkerLoop(Step(st.w, d, bad), st, f, depth, find, d, bad)

\* for walker.Step() { ... }; s is the outcome of the call of Step
walkerLoop(s, st, f, depth, find, d, bad) ==
    IF ~s.ok THEN [st EXCEPT !.w = s.w]
    ELSE walkerNext(walkerBody([st EXCEPT !.w = s.w], f, depth, find, d),
                    f, depth, find, d, bad)

\* PkgFinder.walker(w.gopath, find): the cache after the walk, the match
\* list it returns, and what it visited, skipped, read and reported
walker(c, f, depth, find, d, bad) ==
    walkerNext([w |-> Walk, c |-> c, matches |-> << >>, visited |-> << >>,
                skipped |-> {}, errors |-> 0],
               f, depth, find, d, bad)

(***************************************************************************)
(* OrderedRanks: sequences of [Target, Distance]                           *)
(***************************************************************************)
\* Less with the tie between equal distances broken towards the greater target
LessTargetDescending(a, b) ==
    IF a.Distance < b.Distance THEN TRUE
    ELSE IF a.Distance > b.Distance THEN FALSE
    ELSE StrLess(b.Target, a.Target)

\* OrderedRanks.Less
Less(a, b) ==
    IF a.Distance < b.Distance THEN TRUE
    ELSE IF a.Distance > b.Distance THEN FALSE
    ELSE StrLess(a.Target, b.Target)

RECURSIVE SortSet(_)
SortSet(rs) ==
    IF rs = {} THEN << >>
    ELSE LET first == CHOOSE r \in rs : \A q \in rs : ~Less(q, r)
         IN <<first>> \o SortSet(rs \ {first})

\* sort.Sort(ranks): the targets are distinct, so Less is total on them
Sort(ranks) == SortSet({ ranks[i] : i \in 1..Len(ranks) })

\* OrderedRanks.rank ranges over the elements by value: the minimum it
\* computes is stored in the loop's copy and the ranks keep their Distance
rank(ranks, by) == ranks

\* a Rank as the finder builds it: only Target set
Rank0(target) == [Target |-> target, Distance |-> 0]

\* the ranks farther than this are dropped by fuzzyFindMatches
FuzzyThreshold == 10

\* the number of fuzzy matches Find asks for
FuzzyNum == 10

\* isValid without the stat of the path below the workspace root
isValidAbsOnly(f, find, d) ==
    IF IsAbs(find) THEN [found |-> TRUE, ret |-> <<Rank0(find)>>]
    ELSE [found |-> FALSE, ret |-> << >>]

\* PkgFinder.isValid
isValid(f, find, d) ==
    IF IsAbs(find) THEN [found |-> TRUE, ret |-> <<Rank0(find)>>]
    ELSE IF StatOk(d, find)
         THEN [found |-> TRUE, ret |-> <<Rank0(f.gopath \o <<Sep>> \o find)>>]
         ELSE [found |-> FALSE, ret |-> << >>]

RECURSIVE recheckFrom(_, _, _, _, _)
recheckFrom(c, f, paths, d, ret) ==
    IF Len(paths) = 0 THEN [ret |-> ret, c |-> c]
    ELSE LET path == Head(paths)
             ok == c.fullScan \/ StatOk(d, path)
         IN IF ok
            THEN recheckFrom(c, f, Tail(paths), d,
                             Append(ret, Rank0(f.gopath \o <<Sep>> \o path)))
            ELSE recheckFrom(del(c, path), f, Tail(paths), d, ret)

\* PkgFinder.recheckPaths: the paths that still exist; the others are deleted
recheckPaths(c, f, paths, d) == recheckFrom(c, f, paths, d, << >>)

\* PkgFinder.findInCache; nil is an empty ret
findInCache(c, f, find, d, order) ==
    LET r == contains(c, find, 1, order)
        valids == recheckPaths(c, f, r.paths, d)
    IN IF r.full /\ c.fullScan
       THEN [ret |-> <<Rank0(f.gopath \o <<Sep>> \o r.paths[1])>>, full |-> TRUE,
             c |-> c, paths |-> r.paths]
       ELSE IF Len(valids.ret) > 0
            THEN [ret |-> valids.ret, full |-> r.full, c |-> valids.c, paths |-> r.paths]
            ELSE [ret |-> << >>, full |-> FALSE, c |-> valids.c, paths |-> r.paths]

\* PkgFinder.traverse: the walker's matches as ranks
traverse(pkgs, f) ==
    [i \in 1..Len(pkgs) |-> Rank0(f.gopath \o <<Sep>> \o pkgs[i])]

\* the smallest Distance among the ranks of one entry that pass the threshold
MinDistance(ranks) ==
    LET ds == { ranks[i].Distance : i \in { j \in 1..Len(ranks) :
                                            ranks[j].Distance <= FuzzyThreshold } }
    IN CHOOSE m \in ds : \A k \in ds : m <= k

\* PkgFinder.fuzzyFindMatches
fuzzyFindMatches(c, f, find, num) ==
    LET ranksOf(entry) == RankFindFold(find, Append(Split(entry), entry))
        kept == { entry \in DOMAIN c.storage :
                    \E i \in 1..Len(ranksOf(entry)) :
                        ranksOf(entry)[i].Distance <= FuzzyThreshold }
        matches == { [Target |-> f.gopath \o <<Sep>> \o entry,
                      Distance |-> MinDistance(ranksOf(entry))] : entry \in kept }
        ret == SortSet(matches)
    IN IF Len(ret) > num THEN SubSeq(ret, 1, num) ELSE ret

(***************************************************************************)
(* The cache file and the state of one process                             *)
(***************************************************************************)
VARIABLES
    disk,        \* the existing entries below the root -> mtime
    unreadable,  \* the directories whose enumeration fails
    clock,       \* the time stamp the next change of the tree gets
    cacheFile,   \* [state: "absent" | "ok" | "corrupt", data: a storage]
    storage,     \* cache.storage
    changed,     \* cache.changed
    fullScan,    \* cache.fullScan
    finder,      \* PkgFinder: [gopath, depthLimit]
    depth,       \* the package-level flag variable depth
    last,        \* what the last call did and saw
    prev,        \* the call of Find before the last one, in short
    steps        \* the actions taken so far

vars == <<disk, unreadable, clock, cacheFile, storage, changed, fullScan,
          finder, depth, last, prev, steps>>

\* the actions in one behaviour
MaxSteps == 2

\* the values given to the -d flag (3 is its default)
DepthFlags == {-1, 0, 2, 3}

\* $GOPATH/src : "/s"
Gopaths == { <<47, 115>> }

\* the queries: "c" "a/b/c" "/s/a"
Queries == { <<99>>, <<97, 47, 98, 47, 99>>, <<47, 115, 47, 97>> }

\* the maxima a caller passes to Find (main passes 10)
MaxResults == {1, 10}

\* how cache.save ends when it has to write: written, or MkdirAll or
\* OpenFile failed (the file as it was)
SaveOutcomes == {"ok", "nowrite"}

cache == [storage |-> storage, changed |-> changed, fullScan |-> fullScan]

\* the cache newCache builds before it loads
newCache == [storage |-> EmptyMap, changed |-> FALSE, fullScan |-> FALSE]

\* loadCache that takes an undecodable file for an empty, usable cache
loadCacheQuiet(c, file) ==
    IF file.state = "absent"
    THEN [c EXCEPT !.changed = TRUE, !.fullScan = TRUE]
    ELSE IF file.state = "corrupt"
         THEN c
         ELSE [c EXCEPT !.storage = file.data]

\* cache.loadCache: an absent or undecodable file leaves the empty storage
loadCache(c, file) ==
    IF file.state = "absent"
    THEN [c EXCEPT !.changed = TRUE, !.fullScan = TRUE]
    ELSE IF file.state = "corrupt"
         THEN [c EXCEPT !.changed = TRUE, !.fullScan = TRUE]
         ELSE [c EXCEPT !.storage = file.data]

\* cache.save
save(c, file, outcome) ==
    IF ~c.changed /\ ~c.fullScan
    THEN [err |-> FALSE, wrote |-> FALSE, file |-> file]
    ELSE IF outcome = "ok"
         THEN [err |-> FALSE, wrote |-> TRUE, file |-> [state |-> "ok", data |-> c.storage]]
         ELSE [err |-> TRUE, wrote |-> FALSE, file |-> file]

NoWalk == [ran |-> FALSE, before |-> EmptyMap, visited |-> << >>, matches |-> << >>,
           skipped |-> {}, read |-> {}, errors |-> 0]

WalkObs(before, r) ==
    [ran |-> TRUE, before |-> before, visited |-> r.visited, matches |-> r.matches,
     skipped |-> r.skipped, read |-> r.w.read, errors |-> r.errors]

NoFind == [called |-> FALSE]

\* FindWalked with the save called before each return instead of deferred,
\* and left out before the return of the fuzzy matches
FindWalkedNoSave(looked, fc, tr, f, find) ==
    IF Len(traverse(tr.matches, f)) > 1
    THEN [looked EXCEPT !.stage = "walk",
                        !.ret = Sort(rank(traverse(tr.matches, f), find)),
                        !.c = tr.c,
                        !.walk = WalkObs(fc.c.storage, tr)]
    ELSE [looked EXCEPT !.stage = "fuzzy",
                        !.ret = fuzzyFindMatches(tr.c, f, find, FuzzyNum),
                        !.c = tr.c,
                        !.deferred = FALSE,
                        !.walk = WalkObs(fc.c.storage, tr)]

\* Find from the walk on: tr is the outcome of w.traverse(find)
FindWalked(looked, fc, tr, f, find) ==
    IF Len(traverse(tr.matches, f)) > 1
    THEN [looked EXCEPT !.stage = "walk",
                        !.ret = Sort(rank(traverse(tr.matches, f), find)),
                        !.c = tr.c,
                        !.walk = WalkObs(fc.c.storage, tr)]
    ELSE [looked EXCEPT !.stage = "fuzzy",
                        !.ret = fuzzyFindMatches(tr.c, f, find, FuzzyNum),
                        !.c = tr.c,
                        !.walk = WalkObs(fc.c.storage, tr)]

\* Find from the cache lookup on: fc is the outcome of w.findInCache(find)
FindLooked(looked, fc, f, dep, find, d, bad) ==
    IF Len(fc.ret) > 0 /\ fc.full
    THEN [looked EXCEPT !.stage = "cache", !.ret = fc.ret, !.c = fc.c,
                        !.lookup = looked.c.storage,
                        !.candidates = fc.paths, !.fullMatch = fc.full]
    ELSE FindWalked([looked EXCEPT !.lookup = looked.c.storage,
                                   !.candidates = fc.paths, !.fullMatch = fc.full],
                    fc, walker(fc.c, f, dep, find, d, bad), f, find)

\* the repair of a Fresh cache: full is the outcome of w.walker(w.gopath, "")
FindRepaired(base, full) ==
    [base EXCEPT !.c = [full.c EXCEPT !.changed = TRUE, !.fullScan = FALSE],
                 !.fullWalk = WalkObs(base.c.storage, full)]

\* Find after isValid has failed, the save deferred
FindDeferred(base, f, dep, find, d, bad, order) ==
    FindLooked(base, findInCache(base.c, f, find, d, order), f, dep, find, d, bad)

\* PkgFinder.Find up to its return statement: the result, the cache it
\* leaves to the deferred save, and the stage that produced the result
FindBody(c, f, dep, find, max, d, bad, order) ==
    IF isValid(f, find, d).found
    THEN [stage |-> "literal", ret |-> isValid(f, find, d).ret, c |-> c,
          deferred |-> FALSE, fullWalk |-> NoWalk, lookup |-> c.storage,
          candidates |-> << >>, fullMatch |-> FALSE, walk |-> NoWalk]
    ELSE FindDeferred(
            IF c.fullScan
            THEN FindRepaired([stage |-> "", ret |-> << >>, c |-> c, deferred |-> TRUE,
                               fullWalk |-> NoWalk, lookup |-> c.storage,
                               candidates |-> << >>, fullMatch |-> FALSE,
                               walk |-> NoWalk],
                              walker(c, f, dep, << >>, d, bad))
            ELSE [stage |-> "", ret |-> << >>, c |-> c, deferred |-> TRUE,
                  fullWalk |-> NoWalk, lookup |-> c.storage,
                  candidates |-> << >>, fullMatch |-> FALSE, walk |-> NoWalk],
            f, dep, find, d, bad, order)

\* Find whose deferred function hands a failure of the save to the caller
\* in place of the result
FindReturnSaveError(r, sv) ==
    [ret |-> IF sv.err THEN << >> ELSE r.ret, err |-> sv.err,
     reports |-> IF sv.err THEN 1 ELSE 0]

\* what Find hands to its caller once the deferred function has run on the
\* outcome sv of the save: the result of the return statement and a nil
\* error; a failure of the save is one line on os.Stderr
FindReturn(r, sv) ==
    [ret |-> r.ret, err |-> FALSE, reports |-> IF sv.err THEN 1 ELSE 0]

\* the storage as the lookup of Find sees it: after the repair walk, if any
AtLookup(c, f, dep, d, bad) ==
    IF c.fullScan THEN walker(c, f, dep, << >>, d, bad).c.storage ELSE c.storage

\* the directories a walk indexes, each with its mtime: what a walk in
\* full-scan mode leaves in an empty cache
Indexed(f, dep, d, bad) ==
    walker([newCache EXCEPT !.fullScan = TRUE], f, dep, << >>, d, bad).c.storage

\* c agrees with the tree d, idx being what a walk of d indexes: every key
\* names an existing directory and every indexed directory is a key with its
\* current mtime
AgreesWith(c, d, idx) ==
    /\ \A k \in DOMAIN c.storage : Split(k) \in DOMAIN d /\ IsDir(Split(k))
    /\ \A k \in DOMAIN idx : k \in DOMAIN c.storage /\ c.storage[k] = idx[k]

Agrees(c, f, dep, d, bad) == AgreesWith(c, d, Indexed(f, dep, d, bad))

(***************************************************************************)
(* Actions                                                                 *)
(***************************************************************************)
\* the entries of p in tree t
Entries(t, p) == { q \in t : Len(q) = Len(p) + 1 /\ Parent(q) = p }

\* the cache file a run with unlimited depth left when the tree was t0
FileOf(g, t0) ==
    [state |-> "ok",
     data |-> Indexed([gopath |-> g, depthLimit |-> -1], -1, [p \in t0 |-> 1], {})]

\* The first process of a behaviour starts with no cache file, with an
\* undecodable one, or with the file an earlier run wrote when the tree was
\* t0; the directories whose entries changed since then have a newer mtime.
Init ==
    /\ \E g \in Gopaths, dl \in DepthFlags, t \in InitialTrees, t0 \in InitialTrees,
          st \in {"absent", "corrupt", "ok"} :
          /\ st # "ok" => t0 = t
          /\ disk = [p \in t |-> IF p \in t0 /\ Entries(t, p) = Entries(t0, p)
                                 THEN 1 ELSE 2]
          /\ cacheFile = IF st = "ok" THEN FileOf(g, t0)
                         ELSE [state |-> st, data |-> EmptyMap]
          /\ depth = dl
          /\ finder = [gopath |-> g, depthLimit |-> dl]
          /\ storage = loadCache(newCache, cacheFile).storage
          /\ changed = loadCache(newCache, cacheFile).changed
          /\ fullScan = loadCache(newCache, cacheFile).fullScan
    /\ unreadable = {}
    /\ clock = 3
    /\ last = NoFind
    /\ prev = NoFind
    /\ steps = 0

\* w.Find(find, max), with its deferred cache.save
Find(find, max) ==
    /\ steps < MaxSteps
    /\ \E order \in RangeOrders(AtLookup(cache, finder, depth, disk, unreadable), find),
          outcome \in SaveOutcomes :
          \E r \in {FindBody(cache, finder, depth, find, max, disk, unreadable, order)} :
          \E sv \in {IF r.deferred THEN save(r.c, cacheFile, outcome)
                     ELSE [err |-> FALSE, wrote |-> FALSE, file |-> cacheFile]} :
             /\ outcome # "ok" => (r.deferred /\ (r.c.changed \/ r.c.fullScan))
             /\ storage' = r.c.storage
             /\ changed' = r.c.changed
             /\ fullScan' = r.c.fullScan
             /\ cacheFile' = sv.file
             /\ last' = [called |-> TRUE, find |-> find, max |-> max,
                         stage |-> r.stage, determined |-> r.ret,
                         ret |-> FindReturn(r, sv).ret,
                         err |-> FindReturn(r, sv).err,
                         reports |-> FindReturn(r, sv).reports,
                         saveCalls |-> IF r.deferred THEN 1 ELSE 0,
                         saveErr |-> sv.err, wrote |-> sv.wrote,
                         pre |-> cache, preFile |-> cacheFile, tree |-> disk,
                         post |-> r.c, postFile |-> sv.file,
                         bad |-> unreadable, finder |-> finder, depth |-> depth,
                         agreed |-> Agrees(cache, finder, depth, disk, unreadable),
                         fullWalk |-> r.fullWalk, lookup |-> r.lookup,
                         candidates |-> r.candidates, fullMatch |-> r.fullMatch,
                         walk |-> r.walk]
    /\ prev' = IF last.called
               THEN [called |-> TRUE, find |-> last.find, ret |-> last.ret,
                     tree |-> last.tree, bad |-> last.bad, finder |-> last.finder,
                     depth |-> last.depth, pre |-> last.pre, agreed |-> last.agreed]
               ELSE NoFind
    /\ steps' = steps + 1
    /\ UNCHANGED <<disk, unreadable, clock, finder, depth>>

\* a new process: main reads the flag, find builds the finder with it,
\* newCache loads the cache file
NewProcess(dl) ==
    /\ steps < MaxSteps
    /\ depth' = dl
    /\ finder' = [finder EXCEPT !.depthLimit = dl]
    /\ storage' = loadCache(newCache, cacheFile).storage
    /\ changed' = loadCache(newCache, cacheFile).changed
    /\ fullScan' = loadCache(newCache, cacheFile).fullScan
    /\ steps' = steps + 1
    /\ UNCHANGED <<disk, unreadable, clock, cacheFile, last, prev>>

\* an entry is created: its parent's mtime changes
MkEntry(p) ==
    /\ steps < MaxSteps
    /\ p \notin DOMAIN disk
    /\ Parent(p) = Root \/ (Parent(p) \in DOMAIN disk /\ IsDir(Parent(p)))
    /\ disk' = [q \in (DOMAIN disk) \cup {p} |->
                  IF q = p \/ q = Parent(p) THEN clock ELSE disk[q]]
    /\ clock' = clock + 1
    /\ steps' = steps + 1
    /\ UNCHANGED <<unreadable, cacheFile, storage, changed, fullScan, finder, depth,
                   last, prev>>

\* an entry without entries of its own is removed: its parent's mtime changes
RmEntry(p) ==
    /\ steps < MaxSteps
    /\ p \in DOMAIN disk
    /\ Entries(DOMAIN disk, p) = {}
    /\ disk' = [q \in (DOMAIN disk) \ {p} |-> IF q = Parent(p) THEN clock ELSE disk[q]]
    /\ unreadable' = unreadable \ {p}
    /\ clock' = clock + 1
    /\ steps' = steps + 1
    /\ UNCHANGED <<cacheFile, storage, changed, fullScan, finder, depth, last, prev>>

\* a directory loses its read permission
Chmod(p) ==
    /\ steps < MaxSteps
    /\ p \in DOMAIN disk /\ IsDir(p)
    /\ p \notin unreadable
    /\ unreadable' = unreadable \cup {p}
    /\ steps' = steps + 1
    /\ UNCHANGED <<disk, clock, cacheFile, storage, changed, fullScan, finder, depth,
                   last, prev>>

Next ==
    \/ \E find \in Queries, max \in MaxResults : Find(find, max)
    \/ \E dl \in DepthFlags : NewProcess(dl)
    \/ \E p \in Universe : MkEntry(p)
    \/ \E p \in Universe : RmEntry(p)
    \/ \E p \in {<<nA>>} : Chmod(p)

Spec == Init /\ [][Next]_vars

(***************************************************************************)
(* Properties of Find                                                      *)
(***************************************************************************)
\* the targets of a result
Targets(ret) == { ret[i].Target : i \in 1..Len(ret) }

\* the elements of a sequence
Range(seq) == { seq[i] : i \in 1..Len(seq) }

\* the path string of the cache key k
TargetOf(f, k) == f.gopath \o <<Sep>> \o k

\* the query of the last Find is a literal or real path
LastLiteral == IsAbs(last.find) \/ StatOk(last.tree, last.find)

\* C1 as stated: every call of Find, whichever stage produces its result,
\* invokes cache.save exactly once before it returns.
C1_SaveOnEveryExit == last.called => last.saveCalls = 1

\* C1, amended: a call of Find that the literal/real-path stage does not
\* answer invokes cache.save exactly once, whichever later stage produces the
\* result; a call the literal/real-path stage answers never invokes it.
C1_SaveOncePerLookup ==
    last.called =>
        /\ last.stage \in {"literal", "cache", "walk", "fuzzy"}
        /\ last.stage # "literal" => last.saveCalls = 1
        /\ last.stage = "literal" => last.saveCalls = 0 /\ ~last.wrote

\* a Find that ended in the fuzzy fallback with nothing to return has saved
C1_Witness ==
    last.called /\ last.stage = "fuzzy" /\ last.ret = << >> /\ last.saveCalls = 1

\* C2: a query that is an absolute path, or that names an existing path
\* below the workspace root, is answered by that one path; no walk runs, the
\* storage, the changed and fullScan flags and the cache file stay as they were.
C2_LiteralLeavesCache ==
    (last.called /\ LastLiteral) =>
        /\ Len(last.ret) = 1
        /\ last.ret[1].Target = IF IsAbs(last.find) THEN last.find
                                ELSE TargetOf(last.finder, last.find)
        /\ ~last.fullWalk.ran /\ ~last.walk.ran
        /\ last.post = last.pre
        /\ last.postFile = last.preFile
        /\ ~last.wrote

\* a relative query naming an existing directory, asked of a Fresh cache
C2_Witness ==
    /\ last.called /\ ~IsAbs(last.find) /\ StatOk(last.tree, last.find)
    /\ last.pre.fullScan /\ last.pre.changed
    /\ last.ret = <<Rank0(TargetOf(last.finder, last.find))>>

\* the directories the incremental walk of the last Find visited whose path
\* suffix-matches the query, in the order of the walk
RECURSIVE Matching(_, _)
Matching(visited, find) ==
    IF Len(visited) = 0 THEN << >>
    ELSE IF matchComponent(find, Split(Head(visited)))
         THEN <<Head(visited)>> \o Matching(Tail(visited), find)
         ELSE Matching(Tail(visited), find)

\* C3: when the cache lookup gives no verified whole-key match and the
\* incremental walk meets a directory that suffix-matches the query, Find
\* returns the walk's match (the first in the order of the walk is in the
\* result) and does not go on to the fuzzy fallback (the result holds nothing
\* but directories the walk matched, each with distance 0); a query that
\* matches exactly one directory yields a single result.
C3_WalkMatchReturned ==
    (last.called /\ last.walk.ran /\ Len(Matching(last.walk.visited, last.find)) > 0) =>
        /\ TargetOf(last.finder, Matching(last.walk.visited, last.find)[1])
              \in Targets(last.ret)
        /\ \A r \in Range(last.ret) :
              /\ r.Distance = 0
              /\ \E m \in Range(Matching(last.walk.visited, last.find)) :
                    r.Target = TargetOf(last.finder, m)
        /\ Len(Matching(last.walk.visited, last.find)) = 1 => Len(last.ret) = 1

\* an entry of the result is a stale hit: no directory of the tree has its path
Stale(f, tree, target) ==
    ~\E p \in DOMAIN tree : IsDir(p) /\ AbsPath(f.gopath, p) = target

\* C4: every target that the exact lookup or the fuzzy fallback takes from
\* the cache names a directory that exists when Find returns.
C4_NoStaleHit ==
    (last.called /\ last.stage \in {"cache", "fuzzy"}) =>
        \A t \in Targets(last.ret) : ~Stale(last.finder, last.tree, t)

\* C5: a key the exact lookup returns as a candidate and whose directory is
\* gone is not in the result, is deleted from the storage, leaves the cache
\* changed, and is not in the cache file the flush of that Find writes.
C5_StaleCandidateEvicted ==
    last.called =>
        \A k \in Range(last.candidates) :
            (k \in DOMAIN last.lookup /\ Split(k) \notin DOMAIN last.tree) =>
                /\ TargetOf(last.finder, k) \notin Targets(last.ret)
                /\ k \notin DOMAIN last.post.storage
                /\ last.post.changed
                /\ last.wrote => (last.postFile.state = "ok"
                                  /\ k \notin DOMAIN last.postFile.data)

\* a Find whose lookup returned a key of a removed directory, and which wrote
C5_Witness ==
    /\ last.called /\ last.wrote
    /\ \E k \in Range(last.candidates) :
          /\ k \in DOMAIN last.lookup /\ Split(k) \notin DOMAIN last.tree
          /\ k \in DOMAIN last.preFile.data
          /\ k \notin DOMAIN last.postFile.data

\* the last two calls of Find are consecutive calls of one finder
\* configuration with the same query against the same tree, and the first of
\* them started from a cache loaded from the file, untouched since, that
\* agreed with the tree
SecondOfTwo ==
    /\ last.called /\ prev.called
    /\ prev.find = last.find
    /\ prev.tree = last.tree /\ prev.bad = last.bad
    /\ prev.finder = last.finder /\ prev.depth = last.depth
    /\ ~prev.pre.fullScan /\ ~prev.pre.changed
    /\ prev.agreed

\* C6: of two consecutive calls of Find with the same query, on an unchanged
\* tree and a successfully loaded cache that agrees with it, the second
\* returns the same ordered result as the first, ends with the changed flag
\* false and does not write the cache file.
C6_Idempotent ==
    SecondOfTwo =>
        /\ last.ret = prev.ret
        /\ ~last.post.changed
        /\ ~last.wrote
        /\ last.postFile = last.preFile

\* a second call that went through lookup and walk and returned something
C6_Witness ==
    SecondOfTwo /\ last.walk.ran /\ Len(last.ret) > 0

\* the depth of a visited directory: the number of its path components
DepthOf(pkg) == Len(Split(pkg))

\* the directory pkg was cached before the walk with the mtime it has now
Unchanged(walk, tree, pkg) ==
    /\ pkg \in DOMAIN walk.before
    /\ walk.before[pkg] = tree[Split(pkg)]

\* C7: in an incremental walk with depth limit D >= 1, a non-matching
\* directory at depth D-1 that is cached with its current mtime is not
\* descended into: its entries are not enumerated.
C7_SkipAtLastLevel ==
    (last.called /\ last.walk.ran /\ last.finder.depthLimit >= 1) =>
        \A pkg \in Range(last.walk.visited) :
            (/\ DepthOf(pkg) = last.finder.depthLimit - 1
             /\ ~matchComponent(last.find, Split(pkg))
             /\ Unchanged(last.walk, last.tree, pkg)) =>
                Split(pkg) \notin last.walk.read

\* the directory pkg lies below the depth limit D
BelowLimit(f, pkg) == f.depthLimit = -1 \/ DepthOf(pkg) < f.depthLimit

\* C8: no walk skips a directory by its mtime at a depth other than D-1, and
\* a walk in full-scan mode skips none at all: every visited readable
\* directory below the depth limit whose depth is not D-1 is descended into,
\* whatever its cached and current mtimes, and in full-scan mode so is every
\* visited readable directory below the depth limit.
C8_NoSkipElsewhere ==
    last.called =>
        /\ \A pkg \in Range(last.walk.visited) :
              DepthOf(pkg) # last.finder.depthLimit - 1 =>
                 /\ pkg \notin last.walk.skipped
                 /\ (BelowLimit(last.finder, pkg) /\ Split(pkg) \notin last.bad) =>
                       Split(pkg) \in last.walk.read
        /\ last.fullWalk.skipped = {}
        /\ \A pkg \in Range(last.fullWalk.visited) :
              (BelowLimit(last.finder, pkg) /\ Split(pkg) \notin last.bad) =>
                  Split(pkg) \in last.fullWalk.read

\* an incremental walk descended into a cached, unchanged, non-matching
\* directory that lies above the last level, which has an entry
C8_Witness ==
    /\ last.called /\ last.walk.ran /\ last.finder.depthLimit = 3
    /\ \E pkg \in Range(last.walk.visited) :
          /\ DepthOf(pkg) = 1
          /\ ~matchComponent(last.find, Split(pkg))
          /\ Unchanged(last.walk, last.tree, pkg)
          /\ Split(pkg) \in last.walk.read
          /\ \E q \in Range(last.walk.visited) : DepthOf(q) = 2 /\ Parent(Split(q)) = Split(pkg)

\* C10: the sequence Find returns has at most max elements.
C10_AtMostMax == last.called => Len(last.ret) <= last.max

(***************************************************************************)
(* cache.contains on its own: any storage over the paths of the tree, any  *)
(* of the queries below, any small max                                     *)
(***************************************************************************)
\* the keys a storage may hold
CacheKeys == { Join(p) : p \in DirUniverse }

\* "c" "b/c" "a/b/c" "b" "x/c"
ContainsQueries ==
    { <<99>>, <<98, 47, 99>>, <<97, 47, 98, 47, 99>>, <<98>>, <<120, 47, 99>> }

ContainsMax == {0, 1, 2}

InitContains ==
    /\ \E keys \in SUBSET CacheKeys : storage = [k \in keys |-> 1]
    /\ changed = FALSE
    /\ fullScan = FALSE
    /\ disk = EmptyMap
    /\ unreadable = {}
    /\ clock = 1
    /\ cacheFile = [state |-> "absent", data |-> EmptyMap]
    /\ \E g \in Gopaths : finder = [gopath |-> g, depthLimit |-> 3]
    /\ depth = 3
    /\ last = NoFind
    /\ prev = NoFind
    /\ steps = 0

\* c.contains(path, max)
Contains(path, max) ==
    /\ \E order \in RangeOrders(storage, path) :
          \E r \in {contains(cache, path, max, order)} :
             last' = [called |-> TRUE, find |-> path, max |-> max,
                      paths |-> r.paths, full |-> r.full, pre |-> cache]
    /\ UNCHANGED <<disk, unreadable, clock, cacheFile, storage, changed, fullScan,
                   finder, depth, prev, steps>>

NextContains == \E path \in ContainsQueries, max \in ContainsMax : Contains(path, max)

SpecContains == InitContains /\ [][NextContains]_vars

\* "a/b/c"
KeyABC == <<97, 47, 98, 47, 99>>

\* the last call of contains met the stored entry a/b/c and was not cut
\* short by max, so that its list holds every entry the query matches
ScannedABC ==
    /\ last.called
    /\ KeyABC \in DOMAIN last.pre.storage
    /\ Len(last.paths) <= last.max

\* C9 as stated: the queries "c", "b/c", "a/b/c" and "b" each match the
\* stored entry a/b/c, and the query "x/c" does not.
C9_SuffixOrInner ==
    ScannedABC =>
        /\ last.find \in { <<99>>, <<98, 47, 99>>, KeyABC, <<98>> } =>
              KeyABC \in Range(last.paths)
        /\ last.find = <<120, 47, 99>> => KeyABC \notin Range(last.paths)

\* C9, amended: the queries "c", "b/c" and "a/b/c" each match the stored
\* entry a/b/c; the queries "b" and "x/c" do not; matchComponent decides each
\* of the five queries as the cache lookup does.
C9_SuffixMatch ==
    ScannedABC =>
        /\ last.find \in { <<99>>, <<98, 47, 99>>, KeyABC } =>
              KeyABC \in Range(last.paths)
        /\ last.find \in { <<98>>, <<120, 47, 99>> } =>
              KeyABC \notin Range(last.paths)
        /\ matchComponent(last.find, Split(KeyABC)) <=> KeyABC \in Range(last.paths)

\* the query "b/c" found a/b/c among other stored entries, by suffix
C9_Witness ==
    /\ ScannedABC
    /\ last.find = <<98, 47, 99>>
    /\ ~last.full
    /\ KeyABC \in Range(last.paths)
    /\ Cardinality(DOMAIN last.pre.storage) > 1

(***************************************************************************)
(* Properties of the results, the walks and the cache file                 *)
(***************************************************************************)
\* a comes strictly before b: by distance, then by target
Before(a, b) ==
    \/ a.Distance < b.Distance
    \/ a.Distance = b.Distance /\ StrLess(a.Target, b.Target)

\* C11: every sequence Find returns is ordered: of two adjacent results the
\* first has the smaller distance, or the same distance and the smaller
\* target; no target appears twice.
C11_Ordered ==
    last.called =>
        /\ \A i \in 1..(Len(last.ret) - 1) : Before(last.ret[i], last.ret[i + 1])
        /\ \A i, j \in 1..Len(last.ret) :
              i # j => last.ret[i].Target # last.ret[j].Target

\* a Find has returned two results of equal distance
C11_Witness ==
    /\ last.called
    /\ Len(last.ret) >= 2
    /\ last.ret[1].Distance = last.ret[2].Distance

\* a directory name that excludes the directory from the index
NameExcluded(name) ==
    HasPrefix(name, <<46>>) \/ HasPrefix(name, <<95>>) \/ name = Vendor

\* a directory of n components lies within the depth limit
WithinLimit(depthLimit, n) == depthLimit = -1 \/ n <= depthLimit

\* the directories of the tree within the depth limit that can be reached
\* from the root through readable, non-excluded directories
Reachable(tree, bad, depthLimit) ==
    { p \in DOMAIN tree :
        /\ IsDir(p)
        /\ WithinLimit(depthLimit, Len(p))
        /\ \A i \in 1..Len(p) : ~NameExcluded(p[i])
        /\ \A i \in 0..(Len(p) - 1) : SubSeq(p, 1, i) \notin bad }

\* the storage m holds exactly the directories ps, each with its mtime in
\* the tree
IndexOf(m, tree, ps) ==
    /\ DOMAIN m = { Join(p) : p \in ps }
    /\ \A p \in ps : m[Join(p)] = tree[p]

\* C12: when the cache is Fresh at the start of a Find that the literal stage
\* does not answer, a full walk runs before the cache lookup, and the lookup
\* sees a cache whose keys are exactly the non-excluded directories reachable
\* within the depth limit, each with its current mtime.
C12_FreshRebuilt ==
    (last.called /\ last.pre.fullScan /\ last.stage # "literal") =>
        /\ last.fullWalk.ran
        /\ IndexOf(last.lookup, last.tree,
                   Reachable(last.tree, last.bad, last.finder.depthLimit))

\* every directory the walk visited is a key of the storage m, with the
\* mtime it has in the tree
Upserted(walk, m, tree) ==
    \A i \in 1..Len(walk.visited) :
        /\ walk.visited[i] \in DOMAIN m
        /\ m[walk.visited[i]] = tree[Split(walk.visited[i])]

\* C13: after a walk, in full-scan mode or not, the cache holds for every
\* directory the walk visited the mtime the directory had when visited, also
\* when the directory was cached before with an older mtime.
C13_VisitedUpserted ==
    last.called =>
        /\ last.fullWalk.ran => Upserted(last.fullWalk, last.lookup, last.tree)
        /\ last.walk.ran => Upserted(last.walk, last.post.storage, last.tree)

\* C14: a failure of the final save does not change what Find returns: the
\* caller gets the result the return statement determined and a nil error,
\* whether the save fails or not; a failure is reported once and the save is
\* not tried again.
C14_SaveFailureKeepsResult ==
    last.called =>
        /\ last.ret = last.determined
        /\ ~last.err
        /\ last.saveCalls <= 1
        /\ last.reports = IF last.saveErr THEN 1 ELSE 0
        /\ last.saveErr => (~last.wrote /\ last.postFile = last.preFile)

\* a Find whose save failed has returned the matches of its walk
C14_Witness ==
    /\ last.called
    /\ last.saveErr
    /\ last.stage = "walk"
    /\ Len(last.ret) = 2
    /\ last.reports = 1

\* loadCache finds no file, or one it cannot decode
LoadFails(file) == file.state \in {"absent", "corrupt"}

\* C15: loading never fails fatally: with the cache file absent or
\* undecodable the process starts with an empty cache, fullScan and changed
\* both set; the first Find that the literal stage does not answer rebuilds
\* the cache by a full walk, leaves it no longer Fresh, and its flush writes
\* the cache file (a write that fails is reported and leaves the file).
C15_LoadNeverFatal ==
    /\ (steps = 0 /\ LoadFails(cacheFile)) =>
          (fullScan /\ changed /\ storage = EmptyMap)
    /\ (steps = 1 /\ last.called /\ LoadFails(last.preFile)) =>
          /\ last.pre = [storage |-> EmptyMap, changed |-> TRUE, fullScan |-> TRUE]
          /\ last.stage # "literal" =>
                /\ last.fullWalk.ran
                /\ ~last.post.fullScan
                /\ last.saveCalls = 1
                /\ last.wrote \/ last.saveErr
                /\ last.wrote =>
                      last.postFile = [state |-> "ok", data |-> last.post.storage]

\* the first Find of a process that could not decode its cache file has
\* rebuilt the cache and written the file
C15_Witness ==
    /\ steps = 1
    /\ last.called
    /\ last.preFile.state = "corrupt"
    /\ last.fullWalk.ran
    /\ last.wrote
    /\ cacheFile.state = "ok"
    /\ DOMAIN cacheFile.data # {}
    /\ ~fullScan

\* C16: contains(query, max) answers a query that is a whole key with that
\* one key and isFullMatch = true; any other query with isFullMatch = false
\* and at most max entries, each having the query as a trailing slice of its
\* components and each listed at most once.
C16_AtMostMaxPaths ==
    last.called =>
        /\ last.full <=> last.find \in DOMAIN last.pre.storage
        /\ last.full => last.paths = <<last.find>>
        /\ ~last.full =>
              /\ Len(last.paths) <= last.max
              /\ \A i \in 1..Len(last.paths) :
                    /\ last.paths[i] \in DOMAIN last.pre.storage
                    /\ TrailingSlice(last.paths[i], last.find)
              /\ \A i, j \in 1..Len(last.paths) :
                    i # j => last.paths[i] # last.paths[j]

\* the walk kept to the depth limit: with a limit >= 0 it enumerated no
\* directory of that depth or deeper and visited or added none of more
\* components than the limit; without a limit it visited every reachable
\* non-excluded directory. m is the storage after the walk.
DepthLimited(walk, m, tree, bad, depthLimit) ==
    /\ depthLimit >= 0 =>
          /\ \A p \in walk.read : Len(p) < depthLimit
          /\ \A i \in 1..Len(walk.visited) : DepthOf(walk.visited[i]) <= depthLimit
          /\ \A k \in (DOMAIN m) \ (DOMAIN walk.before) : DepthOf(k) <= depthLimit
    /\ depthLimit = -1 =>
          \A p \in Reachable(tree, bad, -1) : Join(p) \in Range(walk.visited)

\* C17: with a depth limit D >= 0 a walk never descends into a directory of
\* depth >= D (the root has depth 0), so it visits and adds no directory of
\* more than D components, for every D, 0 included; with D = -1 it visits
\* every non-excluded directory.
C17_DepthLimit ==
    last.called =>
        /\ last.fullWalk.ran =>
              DepthLimited(last.fullWalk, last.lookup, last.tree, last.bad,
                           last.finder.depthLimit)
        /\ last.walk.ran =>
              DepthLimited(last.walk, last.post.storage, last.tree, last.bad,
                           last.finder.depthLimit)

\* the walk went past the directories it could not enumerate: it reported
\* each of them, enumerated none of them, and visited every directory within
\* the depth limit that is reachable without passing through one of them
WalkedPast(walk, tree, bad, depthLimit) ==
    /\ \A p \in bad : p \notin walk.read
    /\ walk.errors = Cardinality({ p \in bad : Join(p) \in Range(walk.visited)
                                              /\ ~depthLimitHit(depthLimit, Len(p)) })
    /\ \A p \in Reachable(tree, bad, depthLimit) : Join(p) \in Range(walk.visited)

\* C19: an I/O error on one entry never aborts a walk: the directory that
\* cannot be read is skipped, and the walk still ends having visited every
\* other non-excluded directory within the depth limit that can be reached
\* without passing through it.
C19_ErrorSkipsEntry ==
    (last.called /\ last.bad # {}) =>
        /\ last.fullWalk.ran =>
              WalkedPast(last.fullWalk, last.tree, last.bad, last.finder.depthLimit)
        /\ last.walk.ran =>
              WalkedPast(last.walk, last.tree, last.bad, last.finder.depthLimit)

\* a walk has reported the unreadable directory a and gone on to x and x/c
C19_Witness ==
    /\ last.called
    /\ last.bad = {<<nA>>}
    /\ last.walk.ran
    /\ last.walk.errors = 1
    /\ <<nA, nB>> \in DOMAIN last.tree
    /\ Join(<<nA, nB>>) \notin Range(last.walk.visited)
    /\ Join(<<nX>>) \in Range(last.walk.visited)
    /\ Join(<<nX, nC>>) \in Range(last.walk.visited)

(***************************************************************************)
(* The walks alone, over workspaces with vendor directories and with names *)
(* that sort before the separator                                          *)
(***************************************************************************)
\* "a-b"
nAB == <<97, 45, 98>>

\* "vendors"
nVendors == <<118, 101, 110, 100, 111, 114, 115>>

\* "_t"
nUT == <<95, 116>>

\* a/c next to a-b/c; a vendor directory, one named vendors, one named _t
WalkTrees ==
    { { <<nA>>, <<nA, nC>>, <<nAB>>, <<nAB, nC>> },
      { <<nA>>, <<nA, nC>>, <<Vendor>>, <<Vendor, nC>>, <<nVendors>>,
        <<nVendors, nC>>, <<nUT>>, <<nUT, nC>> } }

\* "/s" and "/vendor"
WalkGopaths == { <<47, 115>>, <<47>> \o Vendor }

\* "c" "a/c"
WalkQueries == { <<99>>, <<97, 47, 99>> }

\* The process starts Fresh (no cache file), or with the file of a run over
\* an empty workspace, or with the file of a run over the tree as it is.
InitWalk ==
    /\ \E g \in WalkGopaths, dl \in DepthFlags, t \in WalkTrees,
          st \in {"absent", "empty", "indexed"} :
          /\ disk = [p \in t |-> 1]
          /\ cacheFile = IF st = "absent" THEN [state |-> "absent", data |-> EmptyMap]
                         ELSE IF st = "empty" THEN FileOf(g, {})
                         ELSE FileOf(g, t)
          /\ depth = dl
          /\ finder = [gopath |-> g, depthLimit |-> dl]
          /\ storage = loadCache(newCache, cacheFile).storage
          /\ changed = loadCache(newCache, cacheFile).changed
          /\ fullScan = loadCache(newCache, cacheFile).fullScan
    /\ unreadable = {}
    /\ clock = 2
    /\ last = NoFind
    /\ prev = NoFind
    /\ steps = 0

\* the repair of a Fresh cache in Find: w.walker(w.gopath, "") and the two
\* assignments after it
Rebuild ==
    /\ fullScan
    /\ \E r \in {walker(cache, finder, depth, << >>, disk, unreadable)} :
          /\ storage' = r.c.storage
          /\ last' = [called |-> TRUE, op |-> "rebuild", find |-> << >>,
                      finder |-> finder, tree |-> disk, pre |-> cache,
                      post |-> [r.c EXCEPT !.changed = TRUE, !.fullScan = FALSE],
                      walk |-> WalkObs(storage, r), ret |-> << >>]
    /\ changed' = TRUE
    /\ fullScan' = FALSE
    /\ UNCHANGED <<disk, unreadable, clock, cacheFile, finder, depth, prev, steps>>

\* w.traverse(find), as Find calls it once the cache is not Fresh
Traverse(find) ==
    /\ ~fullScan
    /\ \E r \in {walker(cache, finder, depth, find, disk, unreadable)} :
          /\ storage' = r.c.storage
          /\ changed' = r.c.changed
          /\ last' = [called |-> TRUE, op |-> "traverse", find |-> find,
                      finder |-> finder, tree |-> disk, pre |-> cache,
                      post |-> r.c, walk |-> WalkObs(storage, r),
                      ret |-> traverse(r.matches, finder)]
    /\ UNCHANGED <<disk, unreadable, clock, cacheFile, fullScan, finder, depth,
                   prev, steps>>

NextWalk ==
    \/ Rebuild
    \/ \E find \in WalkQueries : Traverse(find)

SpecWalk == InitWalk /\ [][NextWalk]_vars

\* the directory p is excluded from the index: its name starts with '.' or
\* '_', or one of its components below the root is "vendor"
SegExcluded(p) ==
    \/ HasPrefix(Base(p), <<46>>)
    \/ HasPrefix(Base(p), <<95>>)
    \/ \E i \in 1..Len(p) : p[i] = Vendor

\* C18: of the directories a walk comes to (the entries of the directories
\* it enumerates), exactly those are excluded - not visited, not added to
\* the cache, not matched, not enumerated - whose name starts with '.' or '_'
\* or that have a component "vendor"; every other one is visited and in the
\* cache, also one named "vendors" and also below a root named "/vendor".
C18_ExclusionRule ==
    last.called =>
        \A p \in DOMAIN last.tree :
            (IsDir(p) /\ Parent(p) \in last.walk.read) =>
                IF SegExcluded(p)
                THEN /\ Join(p) \notin Range(last.walk.visited)
                     /\ Join(p) \notin Range(last.walk.matches)
                     /\ Join(p) \notin (DOMAIN last.post.storage) \ (DOMAIN last.pre.storage)
                     /\ p \notin last.walk.read
                ELSE /\ Join(p) \in Range(last.walk.visited)
                     /\ Join(p) \in DOMAIN last.post.storage

\* the visited directories that have the query as a trailing slice
Matches(visited, find) ==
    { visited[i] : i \in { j \in 1..Len(visited) : TrailingSlice(visited[j], find) } }

\* C20: the list the walker returns to traverse holds every directory the
\* walk visited whose path has the query as a trailing slice, each exactly
\* once, in whatever order the walk meets them.
C20_MatchListComplete ==
    (last.called /\ last.op = "traverse") =>
        /\ Range(last.walk.matches) = Matches(last.walk.visited, last.find)
        /\ Len(last.walk.matches) = Cardinality(Range(last.walk.matches))
        /\ Len(last.ret) = Len(last.walk.matches)

=============================================================================
